---------------------------- MODULE Spec2Model ----------------------------
(***************************************************************************)
(* Request handlers of the library catalog (Genre, Book, BookInstance)     *)
(* over a document store.  A string is a sequence of one-character         *)
(* strings; an ObjectId is a natural number and its request form is a      *)
(* one-character string (instead of 24 hexadecimal digits).                *)
(***************************************************************************)
EXTENDS Integers, Sequences, FiniteSets, TLC

VARIABLES genres, books, instances, nextId, req, resp, pre, inflight, authorDoc,
          authorName

vars == <<genres, books, instances, nextId, req, resp, pre, inflight, authorDoc,
          authorName>>

\* Number of ObjectIds the process hands out (one generator for all models).
MaxId == 2

(***************************************************************************)
(* Strings and the sanitizers of the validation chains                     *)
(***************************************************************************)
None == <<>>

Some(x) == <<x>>

IsWhitespace(c) == c = " "

RECURSIVE LTrim(_)
LTrim(s) == IF s # <<>> /\ IsWhitespace(Head(s)) THEN LTrim(Tail(s)) ELSE s

RECURSIVE RTrim(_)
RTrim(s) ==
    IF s # <<>> /\ IsWhitespace(s[Len(s)]) THEN RTrim(SubSeq(s, 1, Len(s) - 1)) ELSE s

\* .trim()
Trim(s) == RTrim(LTrim(s))

EscapeChar(c) ==
    CASE c = "&" -> <<"&", "a", "m", "p", ";">>
      [] c = "<" -> <<"&", "l", "t", ";">>
      [] c = ">" -> <<"&", "g", "t", ";">>
      [] OTHER   -> <<c>>

RECURSIVE Escape(_)
\* .escape()
Escape(s) == IF s = <<>> THEN <<>> ELSE EscapeChar(Head(s)) \o Escape(Tail(s))

\* The request form of ObjectId k.
IdChars == <<"1", "2", "3", "4", "5", "6", "7", "8", "9">>

IdStr(k) == <<IdChars[k]>>

\* Mongoose's cast of a string to an ObjectId: None when the cast fails.
CastObjectId(s) ==
    IF Len(s) = 1 /\ \E k \in 1..Len(IdChars) : IdChars[k] = s[1]
    THEN Some(CHOOSE k \in 1..Len(IdChars) : IdChars[k] = s[1])
    ELSE None


(***************************************************************************)
(* Responses                                                               *)
(***************************************************************************)
\* res.render(view, locals)
Render(view, title, errors, locals) ==
    [kind |-> "render", view |-> view, title |-> title, errors |-> errors,
     locals |-> locals]

\* res.redirect(url)
Redirect(url) == [kind |-> "redirect", url |-> url]

\* next(err), or an exception that asyncHandler passes to next: the error
\* reaches the generic error responder with err.status = status (None: unset).
Forward(status) == [kind |-> "error", status |-> status]

NotFound == Some(404)

GenreListUrl == <<"/catalog/genres">>

BookListUrl == <<"/catalog/books">>

BookInstanceListUrl == <<"/catalog/bookinstances">>

\* The virtual 'url' of the three schemas.
GenreUrl(id) == <<"/catalog/genre/", id>>

BookUrl(id) == <<"/catalog/book/", id>>

BookInstanceUrl(id) == <<"/catalog/bookinstance/", id>>

(***************************************************************************)
(* The store and its queries                                               *)
(***************************************************************************)
Store == [genres |-> genres, books |-> books, instances |-> instances]

\* The outcome of a handler that writes nothing and responds with r.
Same(r) ==
    [genres |-> genres, books |-> books, instances |-> instances,
     nextId |-> nextId, resp |-> r]

Min(S) == CHOOSE x \in S : \A y \in S : x <= y

\* A stored document as a query returns it: None for null.
Doc(coll, k) == IF k \in DOMAIN coll THEN Some([id |-> k] @@ coll[k]) ELSE None

\* FindOneGenre with the fault of a lookup by name that finds nothing.
FindOneGenre_NoMatch(name) == None

\* Genre.findOne({ name }): the first match in insertion order, or null.
FindOneGenre(name) ==
    LET hits == {k \in DOMAIN genres : genres[k].name = name}
    IN  IF hits = {} THEN None ELSE Doc(genres, Min(hits))

\* Book.find({ genre: id })
BooksWithGenre(k) ==
    {b \in DOMAIN books : \E i \in 1..Len(books[b].genre) : books[b].genre[i] = k}

\* InstancesOfBook with the fault of never finding a dependent.
InstancesOfBook_Empty(k) == {}

\* BookInstance.find({ book: id })
InstancesOfBook(k) == {i \in DOMAIN instances : instances[i].book = k}

Remove(coll, k) == [x \in DOMAIN coll \ {k} |-> coll[x]]

(***************************************************************************)
(* Genre                                                                   *)
(***************************************************************************)
GenreNameMsg == "Genre must contain at least 3 characteres"

\* GenreNameChain with the fault of checking the length after escape().
GenreNameChain_LengthAfterEscape(body) ==
    LET escaped == Escape(Trim(body.name))
    IN  [body   |-> [name |-> escaped],
         errors |-> IF Len(escaped) >= 3 THEN <<>> ELSE <<GenreNameMsg>>]

\* body('name', ...).trim().isLength({ min: 3 }).escape()
GenreNameChain(body) ==
    LET trimmed == Trim(body.name)
    IN  [body   |-> [name |-> Escape(trimmed)],
         errors |-> IF Len(trimmed) >= 3 THEN <<>> ELSE <<GenreNameMsg>>]

\* The Genre schema's own validation, run by save().
GenreSchemaValid(doc) == Len(doc.name) >= 3

genre_detail(id) ==
    LET oid == CastObjectId(id)
    IN  IF oid = None THEN Same(<<Forward(None)>>)
        ELSE IF Doc(genres, oid[1]) = None THEN Same(<<Forward(NotFound)>>)
        ELSE Same(<<Render("genre_detail", "Genre Detail", <<>>,
                           [genre |-> Doc(genres, oid[1]),
                            genre_books |-> BooksWithGenre(oid[1])])>>)

\* genre_create_post_then with the fault of a save that fails when the name is
\* stored by then (as under a unique index on name).
genre_create_post_then_UniqueName(name, genreExists) ==
    IF genreExists # None THEN Same(<<Redirect(GenreUrl(genreExists[1].id))>>)
    ELSE IF FindOneGenre(name) # None THEN Same(<<Forward(None)>>)
    ELSE [Same(<<Redirect(GenreUrl(nextId))>>) EXCEPT
            !.genres = (nextId :> [name |-> name]) @@ genres,
            !.nextId = nextId + 1]

\* genre_create_post after its lookup by name returned genreExists.
genre_create_post_then(name, genreExists) ==
    IF genreExists # None THEN Same(<<Redirect(GenreUrl(genreExists[1].id))>>)
    ELSE IF ~GenreSchemaValid([name |-> name]) THEN Same(<<Forward(None)>>)
    ELSE [Same(<<Redirect(GenreUrl(nextId))>>) EXCEPT
            !.genres = (nextId :> [name |-> name]) @@ genres,
            !.nextId = nextId + 1]

genre_create_post(body) ==
    LET v == GenreNameChain(body)
        genre == [id |-> Some(nextId), name |-> v.body.name]
    IN  IF v.errors # <<>>
        THEN Same(<<Render("genre_form", "Create Genre", v.errors,
                           [genre |-> Some(genre)])>>)
        ELSE genre_create_post_then(v.body.name, FindOneGenre(v.body.name))

genre_delete_get(id) ==
    LET oid == CastObjectId(id)
        view(k) == Render("genre_delete", "Delete Genre", <<>>,
                          [genre |-> Doc(genres, k), genre_books |-> BooksWithGenre(k)])
    IN  IF oid = None THEN Same(<<Forward(None)>>)
        ELSE IF Doc(genres, oid[1]) = None
        THEN Same(<<Redirect(GenreListUrl), view(oid[1])>>)
        ELSE Same(<<view(oid[1])>>)

genre_delete_post(id) ==
    LET oid == CastObjectId(id)
    IN  IF oid = None THEN Same(<<Forward(None)>>)
        ELSE IF BooksWithGenre(oid[1]) # {}
        THEN Same(<<Render("genre_delete", "Delete Genre", <<>>,
                           [genre |-> Doc(genres, oid[1]),
                            genre_books |-> BooksWithGenre(oid[1])])>>)
        ELSE [Same(<<Redirect(GenreListUrl)>>) EXCEPT !.genres = Remove(genres, oid[1])]

genre_update_get(id) ==
    LET oid == CastObjectId(id)
    IN  IF oid = None THEN Same(<<Forward(None)>>)
        ELSE IF Doc(genres, oid[1]) = None THEN Same(<<Forward(None)>>)
        ELSE Same(<<Render("genre_form", "Update Genre", <<>>,
                           [genre |-> Doc(genres, oid[1])])>>)

\* genre_update_post_then with the fault of a candidate without _id: the
\* write stores it under a new identifier.
genre_update_post_then_NewId(id, name, genreExists) ==
    LET oid == CastObjectId(id)
    IN  IF genreExists # None THEN Same(<<Redirect(GenreUrl(genreExists[1].id))>>)
        ELSE IF oid = None THEN Same(<<Forward(None)>>)
        ELSE IF Doc(genres, oid[1]) = None THEN Same(<<Forward(None)>>)
        ELSE [Same(<<Redirect(GenreUrl(oid[1]))>>) EXCEPT
                !.genres = (nextId :> [name |-> name]) @@ genres,
                !.nextId = nextId + 1]

\* genre_update_post_then with the fault of ignoring the lookup by name.
genre_update_post_then_NoCheck(id, name, genreExists) ==
    LET oid == CastObjectId(id)
    IN  IF oid = None THEN Same(<<Forward(None)>>)
        ELSE IF Doc(genres, oid[1]) = None THEN Same(<<Forward(None)>>)
        ELSE [Same(<<Redirect(GenreUrl(oid[1]))>>) EXCEPT
                !.genres = [genres EXCEPT ![oid[1]] = [name |-> name]]]

\* genre_update_post after its lookup by name returned genreExists.
genre_update_post_then(id, name, genreExists) ==
    LET oid == CastObjectId(id)
    IN  IF genreExists # None THEN Same(<<Redirect(GenreUrl(genreExists[1].id))>>)
        ELSE IF oid = None THEN Same(<<Forward(None)>>)
        ELSE IF Doc(genres, oid[1]) = None THEN Same(<<Forward(None)>>)
        ELSE [Same(<<Redirect(GenreUrl(oid[1]))>>) EXCEPT
                !.genres = [genres EXCEPT ![oid[1]] = [name |-> name]]]

genre_update_post(id, body) ==
    LET v == GenreNameChain(body)
        genre == [id |-> CastObjectId(id), name |-> v.body.name]
    IN  IF v.errors # <<>>
        THEN Same(<<Render("genre_form", "Update Genre", v.errors,
                           [genre |-> Some(genre)])>>)
        ELSE genre_update_post_then(id, v.body.name, FindOneGenre(v.body.name))

(***************************************************************************)
(* Book                                                                    *)
(***************************************************************************)
\* A submitted genre field: absent, one string, or a list of strings.
GenreAbsent == [shape |-> "undefined"]

GenreOne(s) == [shape |-> "string", v |-> s]

GenreMany(ss) == [shape |-> "array", v |-> ss]

\* NormalizeGenreCreate with the fault of dropping a single submitted value.
NormalizeGenreCreate_DropsSingle(g) ==
    IF g.shape # "array" THEN <<>> ELSE g.v

\* The first middleware of book_create_post: req.body.genre becomes an array.
NormalizeGenreCreate(g) ==
    IF g.shape # "array"
    THEN IF g.shape = "undefined" THEN <<>> ELSE <<g.v>>
    ELSE g.v

\* The first middleware of book_update_post.
NormalizeGenreUpdate(g) ==
    IF g.shape # "array"
    THEN IF g.shape = "undefined" THEN <<>> ELSE <<g.v>>
    ELSE g.v

BookCreateMsgs ==
    [title |-> "Title must not be empty.", author |-> "Author must not be empty.",
     summary |-> "Summary must not be empty", isbn |-> "ISBN must not be empty"]

BookUpdateMsgs ==
    [title |-> "Title must not be empty", author |-> "Author must not be empty",
     summary |-> "Summary must not be empty", isbn |-> "ISBN must not be empty"]

\* TextChain with the fault of a chain without escape().
TextChain_NoEscape(value, msg) ==
    LET trimmed == Trim(value)
    IN  [value |-> trimmed, errors |-> IF trimmed # <<>> THEN <<>> ELSE <<msg>>]

\* body(field, msg).trim().notEmpty().escape()
TextChain(value, msg) ==
    LET trimmed == Trim(value)
    IN  [value |-> Escape(trimmed), errors |-> IF trimmed # <<>> THEN <<>> ELSE <<msg>>]

\* The validation chains of a Book form, over a body whose genre is a list.
BookChain(body, msgs) ==
    LET title   == TextChain(body.title, msgs.title)
        author  == TextChain(body.author, msgs.author)
        summary == TextChain(body.summary, msgs.summary)
        isbn    == TextChain(body.isbn, msgs.isbn)
    IN  [body   |-> [title |-> title.value, author |-> author.value,
                     summary |-> summary.value, isbn |-> isbn.value,
                     genre |-> [i \in 1..Len(body.genre) |-> Escape(body.genre[i])]],
         errors |-> title.errors \o author.errors \o summary.errors \o isbn.errors]

\* Mongoose's cast of a list of strings to a list of ObjectIds: the default
\* (empty) list when one element fails.
CastObjectIds(ss) ==
    IF \A i \in 1..Len(ss) : CastObjectId(ss[i]) # None
    THEN [i \in 1..Len(ss) |-> CastObjectId(ss[i])[1]]
    ELSE <<>>

\* new Book({...}): author is None when its cast fails.
NewBook(id, b) ==
    [id |-> id, title |-> b.title, author |-> CastObjectId(b.author),
     summary |-> b.summary, isbn |-> b.isbn, genre |-> CastObjectIds(b.genre)]

\* The Book schema's own validation, run by save().
BookSchemaValid(b, doc) ==
    /\ doc.title # <<>> /\ doc.summary # <<>> /\ doc.isbn # <<>>
    /\ doc.author # None
    /\ \A i \in 1..Len(b.genre) : CastObjectId(b.genre[i]) # None

\* The genres of the form, each with its 'checked' mark.
CheckedGenres(doc) ==
    [g \in DOMAIN genres |->
        [name |-> genres[g].name,
         checked |-> \E i \in 1..Len(doc.genre) : doc.genre[i] = g]]

\* A document as it is stored: the fields without the identifier.
BookFields(doc) ==
    [title |-> doc.title, author |-> doc.author[1], summary |-> doc.summary,
     isbn |-> doc.isbn, genre |-> doc.genre]

book_detail(id) ==
    LET oid == CastObjectId(id)
    IN  IF oid = None THEN Same(<<Forward(None)>>)
        ELSE IF Doc(books, oid[1]) = None THEN Same(<<Forward(NotFound)>>)
        ELSE Same(<<Render("book_detail", "Book", <<>>,
                           [book |-> Doc(books, oid[1]),
                            bookInstances |-> InstancesOfBook(oid[1])])>>)

book_create_post(body) ==
    LET v == BookChain([body EXCEPT !.genre = NormalizeGenreCreate(body.genre)],
                       BookCreateMsgs)
        book == NewBook(Some(nextId), v.body)
    IN  IF v.errors # <<>>
        THEN Same(<<Render("book_form", "Create Book", v.errors,
                           [book |-> Some(book), genres |-> CheckedGenres(book)])>>)
        ELSE IF ~BookSchemaValid(v.body, book) THEN Same(<<Forward(None)>>)
        ELSE [Same(<<Redirect(BookUrl(nextId))>>) EXCEPT
                !.books = (nextId :> BookFields(book)) @@ books,
                !.nextId = nextId + 1]

book_delete_get(id) ==
    LET oid == CastObjectId(id)
    IN  IF oid = None THEN Same(<<Forward(None)>>)
        ELSE IF Doc(books, oid[1]) = None THEN Same(<<Redirect(BookListUrl)>>)
        ELSE Same(<<Render("book_delete", "Delete Book", <<>>,
                           [book |-> Doc(books, oid[1]),
                            bookinstances |-> InstancesOfBook(oid[1])])>>)

book_delete_post(id) ==
    LET oid == CastObjectId(id)
    IN  IF oid = None THEN Same(<<Forward(None)>>)
        ELSE IF InstancesOfBook(oid[1]) # {}
        THEN Same(<<Render("book_delete", "Delete Book", <<>>,
                           [book |-> Doc(books, oid[1]),
                            bookinstances |-> InstancesOfBook(oid[1])])>>)
        ELSE [Same(<<Redirect(BookListUrl)>>) EXCEPT !.books = Remove(books, oid[1])]

book_update_get(id) ==
    LET oid == CastObjectId(id)
    IN  IF oid = None THEN Same(<<Forward(None)>>)
        ELSE IF Doc(books, oid[1]) = None THEN Same(<<Forward(NotFound)>>)
        ELSE Same(<<Render("book_form", "Update Book", <<>>,
                           [book |-> Doc(books, oid[1]),
                            genres |-> CheckedGenres(books[oid[1]])])>>)

\* Book.findByIdAndUpdate(id, book, {}): the fields the candidate defines are
\* set on the stored document; no document is inserted.
BookUpdated(old, doc) ==
    [title |-> doc.title, author |-> IF doc.author = None THEN old.author ELSE doc.author[1],
     summary |-> doc.summary, isbn |-> doc.isbn, genre |-> doc.genre]

\* The condition "!errors.isEmpty" of book_update_post: isEmpty is the method
\* itself, never called, and a function is truthy whatever the errors are.
BookUpdateErrorsBranch(errors) == ~TRUE

book_update_post(id, body) ==
    LET v == BookChain([body EXCEPT !.genre = NormalizeGenreUpdate(body.genre)],
                       BookUpdateMsgs)
        oid == CastObjectId(id)
        book == NewBook(oid, v.body)
    IN  IF BookUpdateErrorsBranch(v.errors)
        THEN Same(<<Render("book_form", "Update Book", v.errors,
                           [book |-> Some(book), genres |-> CheckedGenres(book)])>>)
        ELSE IF oid = None THEN Same(<<Forward(None)>>)
        ELSE IF Doc(books, oid[1]) = None THEN Same(<<Forward(None)>>)
        ELSE [Same(<<Redirect(BookUrl(oid[1]))>>) EXCEPT
                !.books = [books EXCEPT ![oid[1]] = BookUpdated(books[oid[1]], book)]]

(***************************************************************************)
(* BookInstance                                                            *)
(***************************************************************************)
Digits == {"0", "1", "2", "3", "4", "5", "6", "7", "8", "9"}

\* .isISO8601(): a four-digit year is the shortest ISO 8601 date.
IsISO8601(s) == Len(s) = 4 /\ \A i \in 1..4 : s[i] \in Digits

\* body('due_back', 'Invalid date').optional({ values: 'falsy' }).isISO8601().toDate()
DueBackChain(value) ==
    IF value = <<>> THEN [value |-> None, errors |-> <<>>]
    ELSE IF IsISO8601(value) THEN [value |-> Some(value), errors |-> <<>>]
    ELSE [value |-> None, errors |-> <<"Invalid date">>]

\* The validation chains of a BookInstance form.
BookInstanceChain(body) ==
    LET book    == TextChain(body.book, "Book must be specified")
        imprint == TextChain(body.imprint, "Imprint must be specified")
        due     == DueBackChain(body.due_back)
    IN  [body   |-> [book |-> book.value, imprint |-> imprint.value,
                     status |-> Escape(body.status), due_back |-> due.value],
         errors |-> book.errors \o imprint.errors \o due.errors]

\* new BookInstance({...}): book is None when its cast fails.
NewBookInstance(id, b) ==
    [id |-> id, book |-> CastObjectId(b.book), imprint |-> b.imprint,
     status |-> b.status, due_back |-> b.due_back]

Available == <<"A", "v", "a", "i", "l", "a", "b", "l", "e">>

Maintenance == <<"M", "a", "i", "n", "t", "e", "n", "a", "n", "c", "e">>

Loaned == <<"L", "o", "a", "n", "e", "d">>

Reserved == <<"R", "e", "s", "e", "r", "v", "e", "d">>

\* The BookInstance schema's own validation, run by save().
BookInstanceSchemaValid(doc) ==
    /\ doc.book # None
    /\ doc.imprint # <<>>
    /\ doc.status \in {Available, Maintenance, Loaned, Reserved}

BookInstanceFields(doc) ==
    [book |-> doc.book[1], imprint |-> doc.imprint, status |-> doc.status,
     due_back |-> doc.due_back]

\* The form of a BookInstance with errors: "selected_book: bookInstance.book._id"
\* throws when the candidate has no book.
BookInstanceFormWithErrors(title, errors, doc) ==
    IF doc.book = None THEN Forward(None)
    ELSE Render("bookinstance_form", title, errors,
                [bookInstance |-> Some(doc), selected_book |-> doc.book[1],
                 book_list |-> DOMAIN books])

bookinstance_detail(id) ==
    LET oid == CastObjectId(id)
    IN  IF oid = None THEN Same(<<Forward(None)>>)
        ELSE IF Doc(instances, oid[1]) = None THEN Same(<<Forward(NotFound)>>)
        ELSE Same(<<Render("bookinstance_detail", "Book:", <<>>,
                           [bookInstance |-> Doc(instances, oid[1]),
                            book |-> Doc(books, instances[oid[1]].book)])>>)

bookinstance_create_post(body) ==
    LET v == BookInstanceChain(body)
        bookInstance == NewBookInstance(Some(nextId), v.body)
    IN  IF v.errors # <<>>
        THEN Same(<<BookInstanceFormWithErrors("Create Book Instance", v.errors,
                                               bookInstance)>>)
        ELSE IF ~BookInstanceSchemaValid(bookInstance) THEN Same(<<Forward(None)>>)
        ELSE [Same(<<Redirect(BookInstanceUrl(nextId))>>) EXCEPT
                !.instances = (nextId :> BookInstanceFields(bookInstance)) @@ instances,
                !.nextId = nextId + 1]

bookinstance_delete_get(id) ==
    LET oid == CastObjectId(id)
    IN  IF oid = None THEN Same(<<Forward(None)>>)
        ELSE IF Doc(instances, oid[1]) = None
        THEN Same(<<Redirect(<<"catalog/bookinstances">>)>>)
        ELSE Same(<<Render("bookinstance_delete", "Book Instance Delete", <<>>,
                           [book_instance |-> Doc(instances, oid[1])])>>)

bookinstance_delete_post(id) ==
    LET oid == CastObjectId(id)
    IN  IF oid = None THEN Same(<<Forward(None)>>)
        ELSE [Same(<<Redirect(BookInstanceListUrl)>>) EXCEPT
                !.instances = Remove(instances, oid[1])]

bookinstance_update_get(id) ==
    LET oid == CastObjectId(id)
    IN  IF oid = None THEN Same(<<Forward(None)>>)
        ELSE IF Doc(instances, oid[1]) = None THEN Same(<<Forward(None)>>)
        ELSE IF Doc(books, instances[oid[1]].book) = None THEN Same(<<Forward(None)>>)
        ELSE Same(<<Render("bookinstance_form", "Update book instance", <<>>,
                           [bookInstance |-> Doc(instances, oid[1]),
                            selected_book |-> instances[oid[1]].book,
                            book_list |-> DOMAIN books])>>)

\* BookInstanceUpdated with the fault of merging: the stored status is kept.
BookInstanceUpdated_KeepsStatus(old, doc) ==
    [book |-> IF doc.book = None THEN old.book ELSE doc.book[1],
     imprint |-> doc.imprint, status |-> old.status, due_back |-> doc.due_back]

\* BookInstance.findByIdAndUpdate(id, bookInstance, {})
BookInstanceUpdated(old, doc) ==
    [book |-> IF doc.book = None THEN old.book ELSE doc.book[1],
     imprint |-> doc.imprint, status |-> doc.status, due_back |-> doc.due_back]

bookinstance_update_post(id, body) ==
    LET v == BookInstanceChain(body)
        oid == CastObjectId(id)
        bookInstance == NewBookInstance(oid, v.body)
    IN  IF v.errors # <<>>
        THEN Same(<<BookInstanceFormWithErrors("Create Book Instance", v.errors,
                                               bookInstance)>>)
        ELSE IF oid = None THEN Same(<<Forward(None)>>)
        ELSE IF Doc(instances, oid[1]) = None THEN Same(<<Forward(None)>>)
        ELSE [Same(<<Redirect(BookInstanceUrl(oid[1]))>>) EXCEPT
                !.instances = [instances EXCEPT
                                 ![oid[1]] = BookInstanceUpdated(instances[oid[1]],
                                                                 bookInstance)]]

(***************************************************************************)
(* Requests                                                                *)
(***************************************************************************)
\* req.params.id: the identifiers the process hands out, and a malformed one.
ParamIds == {IdStr(k) : k \in 1..MaxId} \cup {<<"x">>}

NameInputs ==
    {<<" ", "a", "b", " ">>, <<" ", "a", "b", "c">>, <<"a", "&">>, <<"a", "&", "b">>,
     <<"a", "&", "a", "m", "p", ";", "b">>}

GenreBodies == {[name |-> n] : n \in NameInputs}

\* The identifier of an Author document (the Author collection is not modelled).
AuthorIdStr == <<"9">>

GenreInputs == {GenreAbsent, GenreOne(IdStr(1)), GenreMany(<<IdStr(1), IdStr(2)>>)}

BookBodies ==
    {[title |-> <<" ", "t">>, author |-> AuthorIdStr, summary |-> <<"s">>,
      isbn |-> <<"i">>, genre |-> g] : g \in GenreInputs}
    \cup
    {[title |-> f[1], author |-> f[2], summary |-> f[3], isbn |-> f[4],
      genre |-> f[5]] :
        f \in {<<<<"<">>, AuthorIdStr, <<"s">>, <<"i">>, GenreAbsent>>,
               <<<<" ">>, AuthorIdStr, <<"s">>, <<"i">>, GenreOne(IdStr(1))>>,
               <<<<"t">>, <<>>, <<"s">>, <<"i">>, GenreOne(IdStr(1))>>,
               <<<<>>, <<>>, <<" ">>, <<>>, GenreAbsent>>}}

BookInstanceBodies ==
    {[book |-> IdStr(k), imprint |-> <<"p">>, status |-> Available, due_back |-> <<>>] :
        k \in 1..MaxId}
    \cup
    {[book |-> f[1], imprint |-> f[2], status |-> f[3], due_back |-> f[4]] :
        f \in {<<IdStr(1), <<" ", "p">>, Loaned, <<"2", "0", "2", "0">>>>,
               <<<<>>, <<"p">>, Available, <<>>>>,
               <<<<"x">>, <<"p">>, Available, <<>>>>,
               <<IdStr(1), <<" ">>, Available, <<>>>>,
               <<IdStr(1), <<"p">>, Available, <<"x">>>>}}

(***************************************************************************)
(* The state machine: one request at a time                                *)
(***************************************************************************)
Idle == [h |-> "idle", id |-> <<>>, body |-> <<>>]

Init ==
    /\ genres = <<>>
    /\ books = <<>>
    /\ instances = <<>>
    /\ nextId = 1
    /\ req = Idle
    /\ resp = <<>>
    /\ pre = [genres |-> <<>>, books |-> <<>>, instances |-> <<>>]
    /\ inflight = <<>>
    /\ authorDoc = [first_name |-> None, family_name |-> None]
    /\ authorName = None

\* The router hands request (h, id, body) to its handler, whose outcome is out.
Exchange(h, id, body, out) ==
    /\ req.h = "idle"
    /\ out.nextId <= MaxId + 1
    /\ req' = [h |-> h, id |-> id, body |-> body]
    /\ pre' = Store
    /\ genres' = out.genres
    /\ books' = out.books
    /\ instances' = out.instances
    /\ nextId' = out.nextId
    /\ resp' = out.resp
    /\ UNCHANGED <<inflight, authorDoc, authorName>>

\* The response is sent and the exchange ends.
EndRequest ==
    /\ req.h # "idle"
    /\ req' = Idle
    /\ resp' = <<>>
    /\ pre' = Store
    /\ UNCHANGED <<genres, books, instances, nextId, inflight, authorDoc, authorName>>

GenreDetail == \E id \in ParamIds : Exchange("genre_detail", id, <<>>, genre_detail(id))

GenreCreatePost ==
    \E body \in GenreBodies :
        Exchange("genre_create_post", <<>>, body, genre_create_post(body))

GenreDeleteGet ==
    \E id \in ParamIds : Exchange("genre_delete_get", id, <<>>, genre_delete_get(id))

GenreDeletePost ==
    \E id \in ParamIds : Exchange("genre_delete_post", id, <<>>, genre_delete_post(id))

GenreUpdateGet ==
    \E id \in ParamIds : Exchange("genre_update_get", id, <<>>, genre_update_get(id))

GenreUpdatePost ==
    \E id \in ParamIds, body \in GenreBodies :
        Exchange("genre_update_post", id, body, genre_update_post(id, body))

BookDetail == \E id \in ParamIds : Exchange("book_detail", id, <<>>, book_detail(id))

BookCreatePost ==
    \E body \in BookBodies :
        Exchange("book_create_post", <<>>, body, book_create_post(body))

BookDeleteGet ==
    \E id \in ParamIds : Exchange("book_delete_get", id, <<>>, book_delete_get(id))

BookDeletePost ==
    \E id \in ParamIds : Exchange("book_delete_post", id, <<>>, book_delete_post(id))

BookUpdateGet ==
    \E id \in ParamIds : Exchange("book_update_get", id, <<>>, book_update_get(id))

BookUpdatePost ==
    \E id \in ParamIds, body \in BookBodies :
        Exchange("book_update_post", id, body, book_update_post(id, body))

BookInstanceDetail ==
    \E id \in ParamIds :
        Exchange("bookinstance_detail", id, <<>>, bookinstance_detail(id))

BookInstanceCreatePost ==
    \E body \in BookInstanceBodies :
        Exchange("bookinstance_create_post", <<>>, body, bookinstance_create_post(body))

BookInstanceDeleteGet ==
    \E id \in ParamIds :
        Exchange("bookinstance_delete_get", id, <<>>, bookinstance_delete_get(id))

BookInstanceDeletePost ==
    \E id \in ParamIds :
        Exchange("bookinstance_delete_post", id, <<>>, bookinstance_delete_post(id))

BookInstanceUpdateGet ==
    \E id \in ParamIds :
        Exchange("bookinstance_update_get", id, <<>>, bookinstance_update_get(id))

BookInstanceUpdatePost ==
    \E id \in ParamIds, body \in BookInstanceBodies :
        Exchange("bookinstance_update_post", id, body,
                 bookinstance_update_post(id, body))

Next ==
    \/ GenreDetail
    \/ GenreCreatePost
    \/ GenreDeleteGet
    \/ GenreDeletePost
    \/ GenreUpdateGet
    \/ GenreUpdatePost
    \/ BookDetail
    \/ BookCreatePost
    \/ BookDeleteGet
    \/ BookDeletePost
    \/ BookUpdateGet
    \/ BookUpdatePost
    \/ BookInstanceDetail
    \/ BookInstanceCreatePost
    \/ BookInstanceDeleteGet
    \/ BookInstanceDeletePost
    \/ BookInstanceUpdateGet
    \/ BookInstanceUpdatePost
    \/ EndRequest

Spec == Init /\ [][Next]_vars

(***************************************************************************)
(* Author: the derived display name                                        *)
(***************************************************************************)
\* A field of a document is None (undefined) or Some(string); JavaScript
\* takes undefined and the empty string as false.
Truthy(x) == x # None /\ x[1] # <<>>

\* AuthorSchema.virtual('name')
AuthorName(a) ==
    IF Truthy(a.first_name) /\ Truthy(a.family_name)
    THEN a.first_name[1] \o <<",", " ">> \o a.family_name[1]
    ELSE <<>>

NameValues ==
    {None, Some(<<>>), Some(<<"a">>), Some(<<"b">>), Some(<<"a", "b">>),
     Some(<<"b", "a">>), Some(<<"a", " ", "b">>), Some(<<",">>)}

AuthorInputs == [first_name : NameValues, family_name : NameValues]

InitAuthor ==
    /\ genres = <<>>
    /\ books = <<>>
    /\ instances = <<>>
    /\ nextId = 1
    /\ req = Idle
    /\ resp = <<>>
    /\ pre = [genres |-> <<>>, books |-> <<>>, instances |-> <<>>]
    /\ inflight = <<>>
    /\ authorDoc \in AuthorInputs
    /\ authorName = None

\* A view reads author.name.
ReadAuthorName ==
    /\ authorName = None
    /\ authorName' = Some(AuthorName(authorDoc))
    /\ UNCHANGED <<genres, books, instances, nextId, req, resp, pre, inflight, authorDoc>>

NextAuthor == ReadAuthorName

SpecAuthor == InitAuthor /\ [][NextAuthor]_vars

(***************************************************************************)
(* Requests in flight: a handler gives way at each await, and the database *)
(* runs the awaited query or write at some later step                      *)
(***************************************************************************)
MaxInflight == 2

ConcGenreBodies == {[name |-> <<" ", "a", "b", "c">>], [name |-> <<"a", "&", "b">>]}

ConcBookBodies ==
    {[title |-> <<" ", "t">>, author |-> AuthorIdStr, summary |-> <<"s">>,
      isbn |-> <<"i">>, genre |-> g] : g \in {GenreAbsent, GenreOne(IdStr(1))}}

ConcBookInstanceBodies ==
    {[book |-> IdStr(1), imprint |-> <<"p">>, status |-> Available, due_back |-> <<>>],
     [book |-> IdStr(1), imprint |-> <<" ", "p">>, status |-> Loaned,
      due_back |-> <<"2", "0", "2", "0">>],
     [book |-> IdStr(1), imprint |-> <<" ">>, status |-> Available, due_back |-> <<>>]}

\* A request is accepted and its handler runs up to its first await. The
\* requests in flight together are of one handler (handlers of different
\* collections do not meet in the store) and all began before any of them was
\* answered.
Begin(h, id, body, pc) ==
    /\ req.h = "idle"
    /\ Len(inflight) < MaxInflight
    /\ \A i \in DOMAIN inflight : inflight[i].pc # "done" /\ inflight[i].h = h
    /\ inflight' = Append(inflight, [h |-> h, id |-> id, body |-> body, pc |-> pc,
                                     found |-> None, resp |-> <<>>])
    /\ UNCHANGED <<genres, books, instances, nextId, req, resp, pre, authorDoc, authorName>>

\* The handler of request i runs from its last await to its response, with
\* outcome out.
Complete(i, out) ==
    /\ req.h = "idle"
    /\ out.nextId <= MaxId + 1
    /\ req' = [h |-> inflight[i].h, id |-> inflight[i].id, body |-> inflight[i].body]
    /\ pre' = Store
    /\ genres' = out.genres
    /\ books' = out.books
    /\ instances' = out.instances
    /\ nextId' = out.nextId
    /\ resp' = out.resp
    /\ inflight' = [inflight EXCEPT ![i].pc = "done", ![i].resp = out.resp]
    /\ UNCHANGED <<authorDoc, authorName>>

\* genre_create_post up to "await Genre.findOne(...)": a body with errors is
\* answered at once and is never in flight.
BeginGenreCreate ==
    \E body \in ConcGenreBodies :
        /\ GenreNameChain(body).errors = <<>>
        /\ Begin("genre_create_post", <<>>, body, "findOne")

\* The database runs the lookup by name of request i.
GenreCreateFindOne ==
    \E i \in DOMAIN inflight :
        /\ req.h = "idle"
        /\ inflight[i].pc = "findOne"
        /\ inflight' = [inflight EXCEPT
                          ![i].pc = "then",
                          ![i].found = FindOneGenre(GenreNameChain(inflight[i].body).body.name)]
        /\ UNCHANGED <<genres, books, instances, nextId, req, resp, pre, authorDoc, authorName>>

\* genre_create_post from the lookup's result to the redirect.
GenreCreateThen ==
    \E i \in DOMAIN inflight :
        /\ inflight[i].pc = "then"
        /\ Complete(i, genre_create_post_then(GenreNameChain(inflight[i].body).body.name,
                                              inflight[i].found))

\* book_update_post, for a stored Book, up to "await Book.findByIdAndUpdate(...)".
BeginBookUpdate ==
    \E k \in DOMAIN books, body \in ConcBookBodies :
        Begin("book_update_post", IdStr(k), body, "findByIdAndUpdate")

\* The database runs the update of request i, and the handler redirects.
BookUpdateWrite ==
    \E i \in DOMAIN inflight :
        /\ inflight[i].h = "book_update_post"
        /\ inflight[i].pc = "findByIdAndUpdate"
        /\ Complete(i, book_update_post(inflight[i].id, inflight[i].body))

\* bookinstance_update_post, for a stored BookInstance, up to its await.
BeginBookInstanceUpdate ==
    \E k \in DOMAIN instances, body \in ConcBookInstanceBodies :
        Begin("bookinstance_update_post", IdStr(k), body, "findByIdAndUpdate")

BookInstanceUpdateWrite ==
    \E i \in DOMAIN inflight :
        /\ inflight[i].h = "bookinstance_update_post"
        /\ inflight[i].pc = "findByIdAndUpdate"
        /\ Complete(i, bookinstance_update_post(inflight[i].id, inflight[i].body))

\* Records for the updates to address, made by requests that run alone.
BookCreateAlone ==
    /\ inflight = <<>>
    /\ Exchange("book_create_post", <<>>,
                [title |-> <<"t">>, author |-> AuthorIdStr, summary |-> <<"s">>,
                 isbn |-> <<"i">>, genre |-> GenreAbsent],
                book_create_post([title |-> <<"t">>, author |-> AuthorIdStr,
                                  summary |-> <<"s">>, isbn |-> <<"i">>,
                                  genre |-> GenreAbsent]))

BookInstanceCreateAlone ==
    /\ inflight = <<>>
    /\ Exchange("bookinstance_create_post", <<>>,
                [book |-> IdStr(1), imprint |-> <<"q">>, status |-> Maintenance,
                 due_back |-> <<>>],
                bookinstance_create_post([book |-> IdStr(1), imprint |-> <<"q">>,
                                          status |-> Maintenance, due_back |-> <<>>]))

\* Every request in flight has been answered.
Drain ==
    /\ req.h = "idle"
    /\ inflight # <<>>
    /\ \A i \in DOMAIN inflight : inflight[i].pc = "done"
    /\ inflight' = <<>>
    /\ UNCHANGED <<genres, books, instances, nextId, req, resp, pre, authorDoc, authorName>>

NextConc ==
    \/ BeginGenreCreate
    \/ GenreCreateFindOne
    \/ GenreCreateThen
    \/ BeginBookUpdate
    \/ BookUpdateWrite
    \/ BeginBookInstanceUpdate
    \/ BookInstanceUpdateWrite
    \/ BookCreateAlone
    \/ BookInstanceCreateAlone
    \/ EndRequest
    \/ Drain

SpecConc == Init /\ [][NextConc]_vars

(***************************************************************************)
(* Vocabulary of the properties: the request just handled (req), the store *)
(* before it (pre), the store after it (Store) and the responses (resp).   *)
(***************************************************************************)
GenreHandlers ==
    {"genre_detail", "genre_create_post", "genre_delete_get", "genre_delete_post",
     "genre_update_get", "genre_update_post"}

BookHandlers ==
    {"book_detail", "book_create_post", "book_delete_get", "book_delete_post",
     "book_update_get", "book_update_post"}

UpdatePosts == {"genre_update_post", "book_update_post", "bookinstance_update_post"}

DeleteHandlers ==
    {"genre_delete_get", "genre_delete_post", "book_delete_get", "book_delete_post",
     "bookinstance_delete_get", "bookinstance_delete_post"}

ReadById ==
    {"genre_detail", "book_detail", "bookinstance_detail",
     "genre_update_get", "book_update_get", "bookinstance_update_get"}

\* The collection of store st that handler h works on, and its URLs.
CollOf(st, h) ==
    IF h \in GenreHandlers THEN st.genres
    ELSE IF h \in BookHandlers THEN st.books
    ELSE st.instances

ListUrlOf(h) ==
    IF h \in GenreHandlers THEN <<"/catalog/genres">>
    ELSE IF h \in BookHandlers THEN <<"/catalog/books">>
    ELSE <<"/catalog/bookinstances">>

UrlOf(h, k) ==
    IF h \in GenreHandlers THEN <<"/catalog/genre/", k>>
    ELSE IF h \in BookHandlers THEN <<"/catalog/book/", k>>
    ELSE <<"/catalog/bookinstance/", k>>

\* The request's identifier is well formed / names a record stored before it.
WellFormed(r) == Len(r.id) = 1 /\ r.id[1] \in {IdChars[k] : k \in 1..Len(IdChars)}

IdOf(r) == CHOOSE k \in 1..Len(IdChars) : IdChars[k] = r.id[1]

Resolves(r) == WellFormed(r) /\ IdOf(r) \in DOMAIN CollOf(pre, r.h)

Absent(r) == WellFormed(r) /\ IdOf(r) \notin DOMAIN CollOf(pre, r.h)

Blank(s) == \A i \in 1..Len(s) : s[i] = " "

\* The request has at least one field error (by the rules of section 4.2).
HasFieldError(r) ==
    IF r.h \in {"genre_create_post", "genre_update_post"}
    THEN \E a, b \in 0..Len(r.body.name) :
            /\ a + b >= Len(r.body.name) - 2
            /\ a + b <= Len(r.body.name)
            /\ Blank(SubSeq(r.body.name, 1, a))
            /\ Blank(SubSeq(r.body.name, Len(r.body.name) - b + 1, Len(r.body.name)))
    ELSE IF r.h \in {"book_create_post", "book_update_post"}
    THEN Blank(r.body.title) \/ Blank(r.body.author) \/ Blank(r.body.summary)
            \/ Blank(r.body.isbn)
    ELSE IF r.h \in {"bookinstance_create_post", "bookinstance_update_post"}
    THEN Blank(r.body.book) \/ Blank(r.body.imprint)
            \/ (r.body.due_back # <<>> /\ ~IsISO8601(r.body.due_back))
    ELSE FALSE

\* The one response is a render of view with a non-empty error list.
RendersErrors(view) ==
    /\ Len(resp) = 1
    /\ resp[1].kind = "render"
    /\ resp[1].view = view
    /\ resp[1].errors # <<>>

FormOf(h) ==
    IF h \in GenreHandlers THEN "genre_form"
    ELSE IF h \in BookHandlers THEN "book_form"
    ELSE "bookinstance_form"

(***************************************************************************)
(* Properties                                                              *)
(***************************************************************************)
\* C1: an update POST (Book, Genre, BookInstance) with at least one field
\* error re-renders its form with the error list and writes nothing: the
\* record stored under its identifier, and the rest of the store, are after
\* the request what they were before it.
C1_UpdateWithErrorsWritesNothing ==
    (req.h \in UpdatePosts /\ HasFieldError(req) /\ Resolves(req))
        => (RendersErrors(FormOf(req.h)) /\ Store = pre)

\* C2 as stated: a Genre create POST whose valid name equals, as submitted,
\* the name of a stored Genre inserts nothing and redirects to that Genre.
C2_SubmittedNameTaken ==
    (/\ req.h = "genre_create_post"
     /\ ~HasFieldError(req)
     /\ \E k \in DOMAIN pre.genres : pre.genres[k].name = req.body.name)
        => /\ Store = pre
           /\ \E k \in DOMAIN pre.genres :
                /\ pre.genres[k].name = req.body.name
                /\ resp = <<Redirect(<<"/catalog/genre/", k>>)>>

\* C2 amended: a Genre create POST whose valid name, once trimmed and
\* escaped, equals the name of a stored Genre inserts nothing (the Genre
\* count is unchanged) and redirects to the URL of that stored Genre.
C2_SanitizedNameTaken ==
    (/\ req.h = "genre_create_post"
     /\ ~HasFieldError(req)
     /\ \E k \in DOMAIN pre.genres : pre.genres[k].name = Escape(Trim(req.body.name)))
        => /\ Store = pre
           /\ Cardinality(DOMAIN genres) = Cardinality(DOMAIN pre.genres)
           /\ \E k \in DOMAIN pre.genres :
                /\ pre.genres[k].name = Escape(Trim(req.body.name))
                /\ resp = <<Redirect(<<"/catalog/genre/", k>>)>>

C2_Witness ==
    /\ req.h = "genre_create_post"
    /\ ~HasFieldError(req)
    /\ \E k \in DOMAIN pre.genres : pre.genres[k].name = Escape(Trim(req.body.name))
    /\ Len(resp) = 1
    /\ resp[1].kind = "redirect"

\* The records of store st that depend on record k of handler h's collection.
DependentsOf(st, h, k) ==
    IF h \in BookHandlers
    THEN {i \in DOMAIN st.instances : st.instances[i].book = k}
    ELSE {b \in DOMAIN st.books :
            \E i \in 1..Len(st.books[b].genre) : st.books[b].genre[i] = k}

\* C3: a delete POST for a Book with a dependent BookInstance, or a Genre
\* that a Book references, leaves the store unchanged and renders the
\* confirmation view listing the dependents; for a stored Book or Genre
\* without dependents it removes exactly that record (one record fewer) and
\* redirects to the collection list.
C3_GuardedDelete ==
    (req.h \in {"book_delete_post", "genre_delete_post"} /\ WellFormed(req))
        => LET k    == IdOf(req)
               deps == DependentsOf(pre, req.h, k)
               view == IF req.h = "book_delete_post" THEN "book_delete" ELSE "genre_delete"
               listed == IF req.h = "book_delete_post"
                         THEN resp[1].locals.bookinstances
                         ELSE resp[1].locals.genre_books
           IN  /\ deps # {}
                    => /\ Store = pre
                       /\ Len(resp) = 1
                       /\ resp[1].kind = "render"
                       /\ resp[1].view = view
                       /\ listed = deps
               /\ (deps = {} /\ Resolves(req))
                    => /\ DOMAIN CollOf(Store, req.h) = DOMAIN CollOf(pre, req.h) \ {k}
                       /\ Cardinality(DOMAIN CollOf(Store, req.h))
                            = Cardinality(DOMAIN CollOf(pre, req.h)) - 1
                       /\ \A x \in DOMAIN CollOf(Store, req.h) :
                            CollOf(Store, req.h)[x] = CollOf(pre, req.h)[x]
                       /\ instances = pre.instances
                       /\ (req.h = "book_delete_post" => genres = pre.genres)
                       /\ (req.h = "genre_delete_post" => books = pre.books)
                       /\ resp = <<Redirect(ListUrlOf(req.h))>>

\* A Genre delete POST refused because a Book references the Genre.
C3_Witness ==
    /\ req.h = "genre_delete_post"
    /\ Resolves(req)
    /\ DependentsOf(pre, req.h, IdOf(req)) # {}
    /\ Len(resp) = 1
    /\ resp[1].kind = "render"

\* A Book delete POST that removes a Book whose BookInstance is gone.
C3_WitnessDeleted ==
    /\ req.h = "book_delete_post"
    /\ Resolves(req)
    /\ nextId > IdOf(req) + 1
    /\ instances = <<>>
    /\ genres = <<>>
    /\ books = <<>>

\* The candidate record an update POST renders back.
CandidateOf(h, r) ==
    IF h \in GenreHandlers THEN r.locals.genre[1]
    ELSE IF h \in BookHandlers THEN r.locals.book[1]
    ELSE r.locals.bookInstance[1]

\* C4: an update POST on an existing identifier keeps the number of records
\* of its entity type, creates no record under a new identifier (in any
\* collection) and changes no record but the one under the request's
\* identifier; a candidate it renders back carries that identifier.
C4_UpdateKeepsIdentifiers ==
    (req.h \in UpdatePosts /\ Resolves(req))
        => /\ Cardinality(DOMAIN CollOf(Store, req.h))
                = Cardinality(DOMAIN CollOf(pre, req.h))
           /\ DOMAIN genres = DOMAIN pre.genres
           /\ DOMAIN books = DOMAIN pre.books
           /\ DOMAIN instances = DOMAIN pre.instances
           /\ \A x \in DOMAIN CollOf(pre, req.h) \ {IdOf(req)} :
                CollOf(Store, req.h)[x] = CollOf(pre, req.h)[x]
           /\ \A i \in 1..Len(resp) :
                resp[i].kind = "render" => CandidateOf(req.h, resp[i]).id = <<IdOf(req)>>

\* An update POST that replaced the stored record in place.
C4_Witness ==
    /\ req.h \in UpdatePosts
    /\ Resolves(req)
    /\ Store # pre
    /\ Len(resp) = 1
    /\ resp[1].kind = "redirect"

\* C5: a delete GET or POST for an identifier that names no stored record
\* changes nothing and answers with a redirect to the entity's collection
\* list, never with an error forwarded to the error responder.
C5_DeleteOfAbsentRedirects ==
    (req.h \in DeleteHandlers /\ Absent(req))
        => /\ Store = pre
           /\ resp # <<>>
           /\ resp[1] = Redirect(ListUrlOf(req.h))
           /\ \A i \in 1..Len(resp) : resp[i].kind # "error"

\* C6: a detail GET or update GET whose identifier names no stored record
\* renders nothing and forwards an error with status 404.
C6_ReadOfAbsentIs404 ==
    (req.h \in ReadById /\ Absent(req)) => resp = <<Forward(<<404>>)>>

\* C7: an update POST with valid input forwards a 404 error and creates no
\* record when its identifier names no stored record, and redirects to the
\* canonical URL of that identifier when it does.
C7_UpdateOutcome ==
    (req.h \in UpdatePosts /\ ~HasFieldError(req) /\ WellFormed(req))
        => /\ Absent(req) => (resp = <<Forward(<<404>>)>> /\ Store = pre)
           /\ Resolves(req) => resp = <<Redirect(UrlOf(req.h, IdOf(req)))>>

\* C8: a Genre create POST whose trimmed name has fewer than 3 characters
\* re-renders the form with the error message and inserts nothing.
C8_ShortGenreNameRejected ==
    (req.h = "genre_create_post" /\ HasFieldError(req))
        => /\ RendersErrors("genre_form")
           /\ resp[1].errors = <<"Genre must contain at least 3 characteres">>
           /\ Store = pre

C8_Witness ==
    /\ req.h = "genre_create_post"
    /\ HasFieldError(req)
    /\ Len(req.body.name) >= 3
    /\ Len(resp) = 1
    /\ resp[1].kind = "render"

\* C9: a Book or BookInstance create POST with at least one field error
\* (an empty book field included) re-renders its form with the error list,
\* forwards no error to the error responder and persists nothing.
C9_CreateWithErrorsRerenders ==
    (req.h \in {"book_create_post", "bookinstance_create_post"} /\ HasFieldError(req))
        => (RendersErrors(FormOf(req.h)) /\ Store = pre)

\* C10: every stored BookInstance's book is the identifier of a stored Book.
C10_BookReferenceResolves ==
    \A i \in DOMAIN instances : instances[i].book \in DOMAIN books

\* C11: with requests handled one at a time, no two stored Genres have the
\* same name, and a Genre update POST whose (trimmed, escaped) name is
\* already held by a stored Genre writes nothing.
C11_GenreNamesUnique ==
    /\ \A a, b \in DOMAIN genres : genres[a].name = genres[b].name => a = b
    /\ (/\ req.h = "genre_update_post"
        /\ ~HasFieldError(req)
        /\ \E k \in DOMAIN pre.genres :
                pre.genres[k].name = Escape(Trim(req.body.name)))
            => Store = pre

\* A Genre update POST to the name of another stored Genre.
C11_Witness ==
    /\ req.h = "genre_update_post"
    /\ ~HasFieldError(req)
    /\ Resolves(req)
    /\ \E k \in DOMAIN pre.genres \ {IdOf(req)} :
            pre.genres[k].name = Escape(Trim(req.body.name))
    /\ Cardinality(DOMAIN genres) = 2
    /\ Len(resp) = 1
    /\ resp[1].kind = "redirect"

CreatePosts == {"genre_create_post", "book_create_post", "bookinstance_create_post"}

\* The ObjectId a well-formed identifier string names.
IdNamed(s) == CHOOSE k \in 1..Len(IdChars) : IdChars[k] = s[1]

\* The submitted genre field as a list.
SubmittedGenres(g) ==
    CASE g.shape = "undefined" -> <<>>
      [] g.shape = "string"    -> <<g.v>>
      [] g.shape = "array"     -> g.v

\* The record that the sanitized (trimmed, escaped) values of request r make.
SanitizedRecord(r) ==
    CASE r.h = "genre_create_post" -> [name |-> Escape(Trim(r.body.name))]
      [] r.h = "book_create_post" ->
            [title   |-> Escape(Trim(r.body.title)),
             author  |-> IdNamed(Escape(Trim(r.body.author))),
             summary |-> Escape(Trim(r.body.summary)),
             isbn    |-> Escape(Trim(r.body.isbn)),
             genre   |-> [i \in 1..Len(SubmittedGenres(r.body.genre)) |->
                            IdNamed(Escape(SubmittedGenres(r.body.genre)[i]))]]
      [] r.h = "bookinstance_create_post" ->
            [book     |-> IdNamed(Escape(Trim(r.body.book))),
             imprint  |-> Escape(Trim(r.body.imprint)),
             status   |-> Escape(r.body.status),
             due_back |-> IF r.body.due_back = <<>> THEN <<>> ELSE <<r.body.due_back>>]

\* C12: a Genre, Book or BookInstance create POST that persists a record
\* redirects to the canonical URL of one new identifier, and the record
\* stored under that identifier has the sanitized (trimmed, escaped)
\* submitted values as its fields; no other record changes.
C12_CreatedRecordIsSanitizedInput ==
    (req.h \in CreatePosts /\ Store # pre)
        => \E k \in DOMAIN CollOf(Store, req.h) \ DOMAIN CollOf(pre, req.h) :
                /\ resp = <<Redirect(UrlOf(req.h, k))>>
                /\ CollOf(Store, req.h)[k] = SanitizedRecord(req)
                /\ DOMAIN CollOf(Store, req.h) = DOMAIN CollOf(pre, req.h) \cup {k}
                /\ \A x \in DOMAIN CollOf(pre, req.h) :
                        CollOf(Store, req.h)[x] = CollOf(pre, req.h)[x]
                /\ (req.h # "genre_create_post" => genres = pre.genres)
                /\ (req.h # "book_create_post" => books = pre.books)
                /\ (req.h # "bookinstance_create_post" => instances = pre.instances)

\* A Book created from a title that escape() changes.
C12_Witness ==
    /\ req.h = "book_create_post"
    /\ Store # pre
    /\ Escape(Trim(req.body.title)) # req.body.title
    /\ Len(resp) = 1
    /\ resp[1].kind = "redirect"
    /\ books[resp[1].url[2]].title = Escape(Trim(req.body.title))

\* C13: the Author's display name is family_name, then ", ", then
\* first_name when both names are present, and the empty string otherwise.
C13_AuthorNameFamilyFirst ==
    authorName # None
        => authorName[1] =
              IF /\ authorDoc.first_name # None /\ authorDoc.first_name # Some(<<>>)
                 /\ authorDoc.family_name # None /\ authorDoc.family_name # Some(<<>>)
              THEN authorDoc.family_name[1] \o <<",", " ">> \o authorDoc.first_name[1]
              ELSE <<>>

\* C14: the Book create and update POST handlers turn the submitted genre
\* field into a list before validating: an absent field is the empty list, a
\* single value v is the list of v alone, a list stays as submitted; a Book
\* they then write holds the identifiers that list names, in order.
C14_GenreFieldNormalized ==
    req.h \in {"book_create_post", "book_update_post"} =>
        LET g == req.body.genre
            list == IF req.h = "book_create_post"
                    THEN NormalizeGenreCreate(g) ELSE NormalizeGenreUpdate(g)
            written == {k \in DOMAIN books :
                           k \notin DOMAIN pre.books \/ books[k] # pre.books[k]}
        IN  /\ g.shape = "undefined" => list = <<>>
            /\ g.shape = "string" => list = <<g.v>>
            /\ g.shape = "array" => list = g.v
            /\ \A k \in written :
                  books[k].genre = [i \in 1..Len(SubmittedGenres(g)) |->
                                      IdNamed(Escape(SubmittedGenres(g)[i]))]

\* A single submitted genre was stored as a one-element list by a create, and
\* a submitted list of two by an update.
C14_Witness ==
    /\ req.h = "book_create_post"
    /\ req.body.genre.shape = "string"
    /\ resp = <<Redirect(BookUrl(1))>>
    /\ 1 \notin DOMAIN pre.books
    /\ books[1].genre = <<IdNamed(req.body.genre.v)>>

C14_WitnessUpdate ==
    /\ req.h = "book_update_post"
    /\ req.body.genre.shape = "array"
    /\ Resolves(req)
    /\ pre.books[IdOf(req)].genre = <<>>
    /\ books[IdOf(req)].genre = <<1, 2>>

\* The answered requests in flight that are Genre creates whose lookup by
\* name found nothing.
CreatesAfterNullLookup ==
    {i \in DOMAIN inflight : /\ inflight[i].h = "genre_create_post"
                             /\ inflight[i].pc = "done"
                             /\ inflight[i].found = None}

\* C15: the duplicate check of Genre create is not atomic with the insert: two
\* create requests with the same name whose lookups both ran before either
\* insert (both found nothing) both insert, each redirecting to its own new
\* Genre, and the store then holds two Genres with that name.
C15_BothCreatesInsert ==
    \A i, j \in CreatesAfterNullLookup :
        (i # j /\ Escape(Trim(inflight[i].body.name)) = Escape(Trim(inflight[j].body.name)))
            => \E a, b \in DOMAIN genres :
                    /\ a # b
                    /\ inflight[i].resp = <<Redirect(UrlOf("genre_create_post", a))>>
                    /\ inflight[j].resp = <<Redirect(UrlOf("genre_create_post", b))>>
                    /\ genres[a].name = Escape(Trim(inflight[i].body.name))
                    /\ genres[b].name = genres[a].name

C15_Witness ==
    /\ Cardinality(CreatesAfterNullLookup) = 2
    /\ inflight[1].body = inflight[2].body
    /\ req.h = "genre_create_post"
    /\ Cardinality(DOMAIN pre.genres) = 1
    /\ Cardinality(DOMAIN genres) = 2
    /\ \A a, b \in DOMAIN genres : genres[a].name = genres[b].name

ConcUpdates == {"book_update_post", "bookinstance_update_post"}

\* The record that the sanitized values of update request r make.
UpdateCandidate(r) ==
    SanitizedRecord([r EXCEPT !.h = IF r.h = "book_update_post"
                                    THEN "book_create_post"
                                    ELSE "bookinstance_create_post"])

\* The answered update requests in flight on identifier k of handler h.
UpdatesDone(h, k) ==
    {i \in DOMAIN inflight : /\ inflight[i].h = h
                             /\ inflight[i].pc = "done"
                             /\ inflight[i].id = IdStr(k)}

\* C16: update POSTs in flight together on one existing identifier, with
\* valid input, are each answered with the redirect to that record, none is
\* rejected, and once one has written, the stored record is exactly that
\* request's candidate: the last write wins, nothing of an earlier write or
\* of the older record is merged in, and no version is compared.
C16_LastWriteWins ==
    /\ (req.h \in ConcUpdates /\ Resolves(req) /\ ~HasFieldError(req))
          => /\ resp = <<Redirect(UrlOf(req.h, IdOf(req)))>>
             /\ CollOf(Store, req.h)[IdOf(req)] = UpdateCandidate(req)
    /\ \A h \in ConcUpdates : \A k \in DOMAIN CollOf(Store, h) :
          \A i \in UpdatesDone(h, k) :
              ~HasFieldError(inflight[i])
                  => inflight[i].resp = <<Redirect(UrlOf(h, k))>>

\* Two BookInstance updates in flight together on one record, with different
\* values, have both been answered; the store holds the later one's.
C16_Witness ==
    /\ req.h = "bookinstance_update_post"
    /\ Resolves(req)
    /\ UpdatesDone(req.h, IdOf(req)) = {1, 2}
    /\ \A i \in {1, 2} : ~HasFieldError(inflight[i])
    /\ \E i, j \in {1, 2} :
          /\ inflight[j].body = req.body
          /\ UpdateCandidate(inflight[i]) # UpdateCandidate(req)
          /\ pre.instances[IdOf(req)] = UpdateCandidate(inflight[i])
          /\ instances[IdOf(req)] = UpdateCandidate(req)

\* C17: every handler invocation yields exactly one terminal outcome (one
\* render, one redirect or one error forwarded), never a second response.
C17_OneTerminalOutcome ==
    req.h # "idle" => Len(resp) = 1

=============================================================================
